---------------------------- MODULE Spec2Model ----------------------------
(***************************************************************************)
(* Crop-loss estimation pipeline of croploss-detection-PMFBY:              *)
(*   server/services/gee-analysis.py         (tier orchestrator, satellite *)
(*                                            and simulation tiers)        *)
(*   server/services/csv-offline-analysis.py (offline CSV tier)            *)
(*   server/services/xai-explainer.py        (weather simulation, PMFBY    *)
(*                                            eligibility)                 *)
(*                                                                         *)
(* Numbers.  Python floats are modelled in fixed point: NDVI values,       *)
(* coordinates (degrees), areas (hectares), percentages and confidences    *)
(* are integers in thousandths (Milli).  Weather columns of the CSV are     *)
(* whole units.  float('nan') is the sentinel NaN, Python None (for an      *)
(* NDVI the provider could not compute) is the sentinel NoneVal.           *)
(***************************************************************************)
EXTENDS Integers, Sequences, FiniteSets, TLC

VARIABLES
    EE_AVAILABLE,   \* gee-analysis.py module global: Earth Engine usable
    rng,            \* state of the process-wide `random` generator
    pc,             \* position of the running request: idle, satellite, offline, simulation, done
    call,           \* the operation in progress (or last finished) and its arguments
    tiers,          \* tiers attempted by the current analyze_crop_loss call, in order
    outs,           \* outcome of each attempted tier, aligned with tiers
    env,            \* what a direct offline call read from outside: the CSV file and the clock
    ret,            \* what the operation gave its caller: a value or an exception
    obs,            \* observer: simulation results seen for one watched coordinate
    thr,            \* concurrent host: the two request threads (SpecConc only)
    loads,          \* how many times this process has loaded the model artifact from disk
    sat             \* satellite estimates a serving host has computed so far (SpecScenes only)

vars == <<EE_AVAILABLE, rng, pc, call, tiers, outs, env, ret, obs, thr, loads, sat>>

---------------------------------------------------------------------------
(* Fixed point and sentinels *)

Milli == 1000

NaN == 999999999

NoneVal == 888888888

\* resolution of random.random(): the draws are u / UnitDen, u in 0..UnitDen-1
UnitDen == 4

\* longest prefix of one generator stream the model follows
MaxStream == 7

\* rows of the CSV file
MaxRows == 2

\* longest command line, in arguments after the script name
MaxArgs == 7

\* clock resolution: time instants per day (CSV dates are midnights)
TicksPerDay == 2

Max(a, b) == IF a >= b THEN a ELSE b

Min(a, b) == IF a <= b THEN a ELSE b

Abs(a) == IF a >= 0 THEN a ELSE -a

\* Python int(): truncation toward zero of a / b, b > 0
TruncDiv(a, b) == IF a >= 0 THEN a \div b ELSE -((-a) \div b)

\* Python true division a / b in fixed point (rounded toward zero), b > 0
FDiv(a, b) == TruncDiv(a, b)

IsFinite(x) == x # NaN

---------------------------------------------------------------------------
(* The `random` module: one generator per process.  Its state is the seed  *)
(* it was last seeded with and the number of values drawn since; the       *)
(* value of a draw is a fixed function of both.                            *)

EntropySeeds == {1}

RandDraw(seed, pos) ==
    ((seed % 17) + (seed \div 10) * (pos + 2) + 3 * pos + pos * pos) % UnitDen

\* random.random() on generator state r: the unit draw at r's position
random(r) == RandDraw(r.seed, r.pos)

\* generator state after n draws
Advance(r, n) == [r EXCEPT !.pos = @ + n]

\* random.uniform(a, b) = a + (b - a) * random(), a <= b in thousandths
uniform(a, b, u) == a + ((b - a) * u) \div UnitDen

\* random.seed(n)
random_seed(n) == [seed |-> n, pos |-> 0]

---------------------------------------------------------------------------
(* Shared tables *)

\* crop_values.get(key, 40000): INR per hectare
crop_values_get(key) ==
    CASE key = "rice" -> 40000
      [] key = "wheat" -> 35000
      [] key = "cotton" -> 60000
      [] key = "sugarcane" -> 80000
      [] key = "maize" -> 30000
      [] OTHER -> 40000

\* str.lower() on the strings of the model
Lower(s) ==
    CASE s = "Rice" -> "rice"
      [] s = "RICE" -> "rice"
      [] s = "Wheat" -> "wheat"
      [] s = "Cotton" -> "cotton"
      [] OTHER -> s

\* what a function call does: return a value or raise
Return(v) == [kind |-> "return", value |-> v]

Raise(e) == [kind |-> "raise", value |-> [exception |-> e]]

---------------------------------------------------------------------------
(* gee-analysis.py: simulation tier *)

SimSeedKept(r, latitude, longitude) == r

\* random.seed(int(latitude * longitude * 1000)); r is the generator state
\* the call found
SimSeed(r, latitude, longitude) ==
    random_seed(TruncDiv(latitude * longitude, Milli))

\* int(latitude * longitude * 1000) raises ValueError on nan (OverflowError on inf)
SimSeedRaises(latitude, longitude) == ~IsFinite(latitude) \/ ~IsFinite(longitude)

\* lines 196-197, on the first two unit draws
\* loss_percentage = max(0, min(100, base_loss + random.uniform(-10, 10)))
SimLoss(u1, u2) ==
    LET base_loss == uniform(0, 60 * Milli, u1)
        jitter == uniform(-10 * Milli, 10 * Milli, u2)
    IN  Max(0, Min(100 * Milli, base_loss + jitter))

\* number of values the simulation draws after seeding: five uniforms, and
\* random.choice(causes) when loss_percentage > 40
SimDraws(u1, u2) == IF SimLoss(u1, u2) > 40 * Milli THEN 6 ELSE 5

SimCauses == <<"Severe Drought", "Pest/Disease", "Weather Damage">>

\* lines 196-256 on the unit draws u the call obtained, in the order drawn
SimFromDraws(u, a) ==
    LET loss_percentage == SimLoss(u[1], u[2])
        ndvi_before == uniform(400, 800, u[3])
        raw_current ==
            IF loss_percentage > 20 * Milli
            THEN FDiv(FDiv(ndvi_before * (100 * Milli - loss_percentage), 100 * Milli)
                        * uniform(800, 1200, u[4]), Milli)
            ELSE FDiv(ndvi_before * uniform(900, 1100, u[4]), Milli)
        ndvi_current == Max(100, Min(900, raw_current))
        confidence == uniform(75 * Milli, 95 * Milli, u[5])
        damage_cause ==
            IF loss_percentage > 40 * Milli
            THEN SimCauses[1 + (3 * u[6]) \div UnitDen]
            ELSE IF loss_percentage > 20 * Milli THEN "Moderate Stress"
            ELSE "Unknown"
        affected_area == FDiv(a.field_area * loss_percentage, 100 * Milli)
        base_value == crop_values_get(a.crop_type)
        estimated_value == affected_area * base_value
    IN  [success |-> TRUE,
         ndvi_before |-> ndvi_before,
         ndvi_current |-> ndvi_current,
         loss_percentage |-> loss_percentage,
         confidence |-> confidence,
         affected_area |-> affected_area,
         estimated_value |-> estimated_value,
         damage_cause |-> damage_cause,
         satellite_images |-> "urls",
         acquisition_dates |-> "dates"]

\* the values an uninterrupted call draws from the seeded generator g
SimStream(g) ==
    [i \in 1..SimDraws(random(g), random(Advance(g, 1))) |-> random(Advance(g, i - 1))]

\* the body of analyze_crop_loss_simulation after seeding, run without
\* interruption on the seeded generator g
SimBody(g, a) == SimFromDraws(SimStream(g), a)

\* analyze_crop_loss_simulation(latitude, longitude, crop_type, field_area)
\* called with the generator in state r
analyze_crop_loss_simulation(r, a) ==
    IF SimSeedRaises(a.latitude, a.longitude)
    THEN Raise("ValueError")
    ELSE Return(SimBody(SimSeed(r, a.latitude, a.longitude), a))

\* the generator after that call
SimRng(r, a) ==
    IF SimSeedRaises(a.latitude, a.longitude)
    THEN r
    ELSE LET g == SimSeed(r, a.latitude, a.longitude) IN Advance(g, Len(SimStream(g)))

---------------------------------------------------------------------------
(* gee-analysis.py: satellite tier.  The imagery provider's answer p is    *)
(* [fault, before, current]: fault "query" when a provider call up to the  *)
(* two getInfo() raises, "thumb" when getThumbURL raises, else "none";     *)
(* before / current are the regional mean NDVI values or NoneVal.          *)

RealTimeNoData(p) == p.before = NoneVal \/ p.current = NoneVal

\* whether the call reaches random.uniform(-5, 5) on line 117
RealTimeDraws(p) == p.fault # "query" /\ ~RealTimeNoData(p)

\* lines 111-114
RealTimeLoss(before, current) ==
    IF before > 0
    THEN Max(0, FDiv((before - current) * 100 * Milli, before))
    ELSE 0

\* lines 120-126
RealTimeCause(loss_percentage) ==
    IF loss_percentage > 40 * Milli THEN "Severe Stress"
    ELSE IF loss_percentage > 25 * Milli THEN "Moderate Stress"
    ELSE IF loss_percentage > 10 * Milli THEN "Minor Stress"
    ELSE "Healthy"

analyze_crop_loss_real_time(r, a, p) ==
    IF p.fault = "query" THEN Raise("ProviderError")
    ELSE IF RealTimeNoData(p) THEN Raise("NoSatelliteData")
    ELSE IF p.fault = "thumb" THEN Raise("ProviderError")
    ELSE
      LET loss_percentage == RealTimeLoss(p.before, p.current)
          confidence == 90 * Milli + uniform(-5 * Milli, 5 * Milli, random(r))
          affected_area == FDiv(a.field_area * loss_percentage, 100 * Milli)
          base_value == crop_values_get(a.crop_type)
          estimated_value == affected_area * base_value
      IN  Return([success |-> TRUE,
                  ndvi_before |-> p.before,
                  ndvi_current |-> p.current,
                  loss_percentage |-> loss_percentage,
                  confidence |-> confidence,
                  affected_area |-> affected_area,
                  estimated_value |-> estimated_value,
                  damage_cause |-> RealTimeCause(loss_percentage),
                  satellite_images |-> "urls",
                  acquisition_dates |-> "dates"])

RealTimeRng(r, p) == IF RealTimeDraws(p) THEN Advance(r, 1) ELSE r

---------------------------------------------------------------------------
(* csv-offline-analysis.py: offline tier.  A CSV row is                    *)
(* [Village, Crop_Variety, Day, NDVI_Value, Temperature_Max_C,             *)
(*  Rainfall_mm, Humidity_Percent]; its Date is midnight of Day.  The file *)
(* read by load_offline_data is d = [exists, rows].                        *)

\* village_coords.get(v, (0, 0))
village_coords_get(v) ==
    CASE v = "Chevella" -> <<17200, 78100>>
      [] v = "Manchal" -> <<17100, 78200>>
      [] v = "Shankarpalle" -> <<17300, 78000>>
      [] OTHER -> <<0, 0>>

\* haversine_distance in metres (R = 6371 km), the source's formula
\* evaluated at the query points and village coordinates of the model;
\* nan when a coordinate is nan
haversine_distance(lat1, lon1, lat2, lon2) ==
    IF ~IsFinite(lat1) \/ ~IsFinite(lon1) THEN NaN
    ELSE CASE <<lat1, lon1, lat2, lon2>> = <<17200, 78100, 17200, 78100>> -> 0
           [] <<lat1, lon1, lat2, lon2>> = <<17200, 78100, 17100, 78200>> -> 15380
           [] <<lat1, lon1, lat2, lon2>> = <<17200, 78100, 17300, 78000>> -> 15376
           [] <<lat1, lon1, lat2, lon2>> = <<17200, 78100, 0, 0>> -> 8744308
           [] <<lat1, lon1, lat2, lon2>> = <<100, 100, 17200, 78100>> -> 8730353
           [] <<lat1, lon1, lat2, lon2>> = <<100, 100, 17100, 78200>> -> 8740285
           [] <<lat1, lon1, lat2, lon2>> = <<100, 100, 17300, 78000>> -> 8720437
           [] <<lat1, lon1, lat2, lon2>> = <<100, 100, 0, 0>> -> 15725

\* the Date column: pandas parses the CSV's dates to midnight
RowDate(row) == row.Day * TicksPerDay

RowPassesCaseSensitive(row, crop_type, date) ==
    /\ row.Crop_Variety = crop_type
    /\ RowDate(row) >= date - 7 * TicksPerDay
    /\ RowDate(row) <= date + 7 * TicksPerDay

\* the boolean mask of lines 34-38, for one row
RowPasses(row, crop_type, date) ==
    /\ Lower(row.Crop_Variety) = Lower(crop_type)
    /\ RowDate(row) >= date - 7 * TicksPerDay
    /\ RowDate(row) <= date + 7 * TicksPerDay

FilteredAnyCrop(rows, crop_type, date) ==
    {i \in 1..Len(rows) : /\ RowDate(rows[i]) >= date - 7 * TicksPerDay
                          /\ RowDate(rows[i]) <= date + 7 * TicksPerDay}

\* index labels of `filtered`
Filtered(rows, crop_type, date) ==
    {i \in 1..Len(rows) : RowPasses(rows[i], crop_type, date)}

RowDistance(row, latitude, longitude) ==
    LET c == village_coords_get(row.Village)
    IN  haversine_distance(latitude, longitude, c[1], c[2])

IdxMinLast(rows, idx, latitude, longitude) ==
    CHOOSE i \in idx :
        \A j \in idx :
            \/ RowDistance(rows[i], latitude, longitude) < RowDistance(rows[j], latitude, longitude)
            \/ /\ RowDistance(rows[i], latitude, longitude) = RowDistance(rows[j], latitude, longitude)
               /\ i >= j

\* filtered['Distance'].idxmin(): the first label holding the smallest distance
IdxMin(rows, idx, latitude, longitude) ==
    CHOOSE i \in idx :
        \A j \in idx :
            \/ RowDistance(rows[i], latitude, longitude) < RowDistance(rows[j], latitude, longitude)
            \/ /\ RowDistance(rows[i], latitude, longitude) = RowDistance(rows[j], latitude, longitude)
               /\ i <= j

\* find_nearest_village_data: returns 0 for None, else the label of the
\* nearest row; with every distance nan, idxmin yields no label and the
\* lookup raises
find_nearest_village_data(rows, latitude, longitude, crop_type, date) ==
    LET idx == Filtered(rows, crop_type, date)
    IN  IF idx = {} THEN Return(0)
        ELSE IF ~IsFinite(latitude) \/ ~IsFinite(longitude) THEN Raise("KeyError")
        ELSE Return(IdxMin(rows, idx, latitude, longitude))

OfflineLossInclusive(row) ==
    LET base == Max(0, FDiv((600 - row.NDVI_Value) * 100 * Milli, 600))
        t == IF row.Temperature_Max_C >= 35 THEN 5 * Milli ELSE 0
        r == IF row.Rainfall_mm <= 10 THEN 5 * Milli ELSE 0
        h == IF row.Humidity_Percent <= 30 THEN 3 * Milli ELSE 0
    IN  Min(base + t + r + h, 100 * Milli)

\* lines 59-71
OfflineLoss(row) ==
    LET base == Max(0, FDiv((600 - row.NDVI_Value) * 100 * Milli, 600))
        t == IF row.Temperature_Max_C > 35 THEN 5 * Milli ELSE 0
        r == IF row.Rainfall_mm < 10 THEN 5 * Milli ELSE 0
        h == IF row.Humidity_Percent < 30 THEN 3 * Milli ELSE 0
    IN  Min(base + t + r + h, 100 * Milli)

DeltaHours(today, row) == ((today - RowDate(row)) * 24) \div TicksPerDay

\* (today - nearest_data['Date']).days: whole days, rounded down
DeltaDays(today, row) == (today - RowDate(row)) \div TicksPerDay

\* line 72
OfflineConfidence(today, row) == (80 + (5 - Abs(DeltaDays(today, row)))) * Milli

\* lines 73-79
OfflineCause(loss_percentage) ==
    IF loss_percentage > 40 * Milli THEN "Severe Stress"
    ELSE IF loss_percentage > 25 * Milli THEN "Moderate Stress"
    ELSE IF loss_percentage > 10 * Milli THEN "Minor Stress"
    ELSE "Healthy"

OfflineFailure(e) == [success |-> FALSE, error |-> e]

NoMatchText == "No matching offline data found for location, crop, and date"

\* analyze_crop_loss_offline: every exception is turned into a failure object
analyze_crop_loss_offline(a, d, today) ==
    IF ~d.exists THEN OfflineFailure("FileNotFoundError")
    ELSE
      LET found == find_nearest_village_data(d.rows, a.latitude, a.longitude,
                                             a.crop_type, today)
      IN  IF found.kind = "raise" THEN OfflineFailure(found.value.exception)
          ELSE IF found.value = 0
          THEN OfflineFailure(NoMatchText)
          ELSE
            LET nearest_data == d.rows[found.value]
                loss_percentage == OfflineLoss(nearest_data)
                affected_area == FDiv(a.field_area * loss_percentage, 100 * Milli)
                base_value == crop_values_get(Lower(a.crop_type))
            IN  [success |-> TRUE,
                 ndvi_value |-> nearest_data.NDVI_Value,
                 loss_percentage |-> loss_percentage,
                 confidence |-> OfflineConfidence(today, nearest_data),
                 affected_area |-> affected_area,
                 estimated_value |-> affected_area * base_value,
                 damage_cause |-> OfflineCause(loss_percentage),
                 data_source |-> "offline_csv",
                 location |-> nearest_data.Village,
                 date |-> nearest_data.Day]

---------------------------------------------------------------------------
(* xai-explainer.py: weather simulation and PMFBY eligibility *)

\* int((latitude + longitude) * 1000) raises on nan
WeatherSeedRaises(latitude, longitude) == ~IsFinite(latitude) \/ ~IsFinite(longitude)

\* random.seed(int((latitude + longitude) * 1000))
WeatherSeed(r, latitude, longitude) == random_seed(latitude + longitude)

\* get_weather_simulation(latitude, longitude) called with the generator in state r
get_weather_simulation(r, latitude, longitude) ==
    IF WeatherSeedRaises(latitude, longitude) THEN Raise("ValueError")
    ELSE LET g == WeatherSeed(r, latitude, longitude)
         IN  Return([rainfall |-> uniform(0, 25 * Milli, random(g)),
                     temperature |-> uniform(25 * Milli, 40 * Milli, random(Advance(g, 1))),
                     humidity |-> uniform(40 * Milli, 80 * Milli, random(Advance(g, 2))),
                     wind_speed |-> uniform(8 * Milli, 18 * Milli, random(Advance(g, 3)))])

WeatherRng(r, latitude, longitude) ==
    IF WeatherSeedRaises(latitude, longitude) THEN r
    ELSE Advance(WeatherSeed(r, latitude, longitude), 4)

\* thresholds.get(crop_type, thresholds['default']), in thousandths of a percent
thresholds_get(crop_type) ==
    CASE crop_type = "rice" -> 20 * Milli
      [] crop_type = "wheat" -> 20 * Milli
      [] crop_type = "cotton" -> 25 * Milli
      [] crop_type = "sugarcane" -> 30 * Milli
      [] crop_type = "maize" -> 20 * Milli
      [] crop_type = "default" -> 20 * Milli
      [] OTHER -> 20 * Milli

EligibleStrict(loss_percentage, threshold) == loss_percentage > threshold

\* line 325
Eligible(loss_percentage, threshold) == loss_percentage >= threshold

\* f['feature'].replace('_', ' ')
Spaced(feature) ==
    CASE feature = "ndvi_before" -> "ndvi before"
      [] feature = "ndvi_current" -> "ndvi current"
      [] feature = "wind_speed" -> "wind speed"
      [] feature = "days_since_sowing" -> "days since sowing"
      [] OTHER -> feature

\* [e for e in explanations if e['contribution'] > 0][:2], as feature names
TopFactors(explanations) ==
    LET Positive(e) == e.contribution > 0
        pos == SelectSeq(explanations, Positive)
    IN  [i \in 1..Min(2, Len(pos)) |-> Spaced(pos[i].feature)]

\* check_pmfby_eligibility_with_explanation; the explanation text is kept as
\* its parts: which sentence was chosen and the factors it names
check_pmfby_eligibility_with_explanation(loss_percentage, crop_type, explanations) ==
    LET threshold == thresholds_get(crop_type)
        eligible == Eligible(loss_percentage, threshold)
    IN  [eligible |-> eligible,
         threshold |-> threshold,
         explanation |->
             [crop_type |-> crop_type,
              required |-> threshold,
              sentence |-> IF eligible THEN "exceeds" ELSE "is below",
              factors |-> IF eligible THEN TopFactors(explanations) ELSE <<>>],
         loss_percentage |-> loss_percentage]

---------------------------------------------------------------------------
(* xai-explainer.py: the rule-based model SimpleMLModel.  A feature vector *)
(* is the sequence <<ndvi_before, ndvi_current, rainfall, temperature,     *)
(* humidity, wind_speed, days_since_sowing>>, every entry in thousandths.  *)

\* lines 23-32: list(self.feature_weights.keys())
feature_names ==
    <<"ndvi_before", "ndvi_current", "rainfall", "temperature", "humidity",
      "wind_speed", "days_since_sowing">>

\* lines 40-43: the NDVI part of the loss, not bounded below
BaseLoss(ndvi_before, ndvi_current) ==
    IF ndvi_before > 0
    THEN FDiv((ndvi_before - ndvi_current) * 100 * Milli, ndvi_before)
    ELSE 0

WeatherStressNone(rainfall, temperature, humidity, wind_speed) == 0

\* lines 45-67: what the four weather tests add to base_loss
WeatherStress(rainfall, temperature, humidity, wind_speed) ==
      (IF rainfall < 5 * Milli THEN 15 * Milli
       ELSE IF rainfall > 30 * Milli THEN 10 * Milli ELSE 0)
    + (IF temperature > 38 * Milli THEN 12 * Milli
       ELSE IF temperature < 22 * Milli THEN 8 * Milli ELSE 0)
    + (IF wind_speed > 20 * Milli THEN 5 * Milli ELSE 0)
    + (IF humidity < 40 * Milli THEN 3 * Milli
       ELSE IF humidity > 85 * Milli THEN 4 * Milli ELSE 0)

\* SimpleMLModel.predict(features), in thousandths of a percent
predict(features) ==
    LET base_loss == BaseLoss(features[1], features[2])
                     + WeatherStress(features[3], features[4], features[5], features[6])
    IN  Max(0, Min(100 * Milli, base_loss))

\* SimpleMLModel.get_feature_importance(features), in millionths
get_feature_importance(features) ==
    LET ndvi_change == IF features[1] > 0 THEN Abs(features[1] - features[2]) ELSE 0
        rainfall_stress ==
            Milli - Min(Milli, FDiv(Abs(features[3] - 15 * Milli) * Milli, 15 * Milli))
        temp_stress ==
            Milli - Min(Milli, FDiv(Abs(features[4] - 30 * Milli) * Milli, 10 * Milli))
        humidity_stress ==
            Milli - Min(Milli, FDiv(Abs(features[5] - 60 * Milli) * Milli, 20 * Milli))
        wind_stress == Min(Milli, FDiv(features[6] * Milli, 25 * Milli))
    IN  << ndvi_change * 300, ndvi_change * 400, rainfall_stress * 250,
           temp_stress * 200, humidity_stress * 100, wind_stress * 80, 50 * Milli >>

---------------------------------------------------------------------------
(* xai-explainer.py: predict_with_explanation and the narrative *)

\* the file data/crop_loss_model.pkl: absent, unreadable, or a pickled model
\* with its own feature schema, importances and (constant) prediction
NoArtifact ==
    [exists |-> FALSE, readable |-> FALSE, feature_names |-> <<>>,
     importances |-> <<>>, prediction |-> 0]

\* lines 107-110: how many times one call of load_trained_model gets the
\* model from the file: joblib.load runs when the imports succeeded and the
\* file exists, and returns the model data when the file is readable
ArtifactLoads(ml_available, artifact) ==
    IF ml_available /\ artifact.exists /\ artifact.readable THEN 1 ELSE 0

NoTrained == [model |-> NoneVal, features |-> <<>>, importances |-> <<>>]

\* load_trained_model(): lines 103-115
load_trained_model(ml_available, artifact) ==
    IF ml_available /\ artifact.exists /\ artifact.readable
    THEN [model |-> artifact.prediction, features |-> artifact.feature_names,
          importances |-> artifact.importances]
    ELSE NoTrained

UseTrainedModelIfLoaded(trained) == trained.model # NoneVal

\* line 138: `if False and trained_model is not None and ...`
UseTrainedModel(trained) == FALSE /\ trained.model # NoneVal

\* feature_val / (feature_val + 1) in thousandths
UnitRatio(v) ==
    IF v + Milli > 0 THEN FDiv(v * Milli, v + Milli) ELSE FDiv((-v) * Milli, -(v + Milli))

\* lines 236-243 (and 182-190): one entry of feature_explanations
Explanation(feature, value, importance, ratio) ==
    LET contribution == FDiv(importance * ratio, Milli)
    IN  [feature |-> feature, value |-> value, importance |-> importance,
         contribution |-> contribution,
         impact |-> IF contribution > 100 * Milli THEN "increases" ELSE "decreases"]

SortByImportanceUnstable(explanations) ==
    LET n == Len(explanations)
        Rank(i) ==
            1 + Cardinality({j \in 1..n :
                    \/ explanations[j].importance > explanations[i].importance
                    \/ /\ explanations[j].importance = explanations[i].importance
                       /\ j > i})
    IN  [k \in 1..n |-> explanations[CHOOSE i \in 1..n : Rank(i) = k]]

SortByImportanceNone(explanations) == explanations

\* explanations.sort(key=lambda x: x['importance'], reverse=True): stable
SortByImportance(explanations) ==
    LET n == Len(explanations)
        Rank(i) ==
            1 + Cardinality({j \in 1..n :
                    \/ explanations[j].importance > explanations[i].importance
                    \/ /\ explanations[j].importance = explanations[i].importance
                       /\ j < i})
    IN  [k \in 1..n |-> explanations[CHOOSE i \in 1..n : Rank(i) = k]]

Part(kind, label, feature, text) ==
    [kind |-> kind, label |-> label, feature |-> feature, text |-> text]

\* lines 267-274: the severity sentence
SeveritySentence(loss_percentage) ==
    IF loss_percentage < 10 * Milli THEN "good condition"
    ELSE IF loss_percentage < 25 * Milli THEN "moderate stress"
    ELSE IF loss_percentage < 50 * Milli THEN "significant damage"
    ELSE "severe damage"

\* lines 282-307: the sentence of the factor ranked i, "" when none is appended
FactorSentence(factor) ==
    LET v == factor.value
    IN  CASE factor.feature = "ndvi_before" ->
                 IF v > 600 THEN "initial health good" ELSE "initial health moderate"
          [] factor.feature = "ndvi_current" ->
                 IF v > 600 THEN "current health good" ELSE "current health poor"
          [] factor.feature = "rainfall" ->
                 IF v < 5 * Milli THEN "very low rainfall"
                 ELSE IF v > 25 * Milli THEN "very high rainfall"
                 ELSE "rainfall moderate"
          [] factor.feature = "temperature" ->
                 IF v > 38 * Milli THEN "high temperature"
                 ELSE IF v < 20 * Milli THEN "low temperature"
                 ELSE "temperature suitable"
          [] factor.feature = "humidity" ->
                 IF v < 40 * Milli THEN "low humidity"
                 ELSE IF v > 85 * Milli THEN "high humidity"
                 ELSE ""
          [] factor.feature = "wind_speed" ->
                 IF v > 20 * Milli THEN "strong winds" ELSE ""
          [] OTHER -> ""

\* generate_readable_explanation(explanations, loss_percentage): the lines
\* that '\n'.join puts together, in order
generate_readable_explanation(explanations, loss_percentage) ==
    LET top_factors == SubSeq(explanations, 1, Min(3, Len(explanations)))
        lines == [i \in 1..Len(top_factors) |->
                     Part("factor", i, top_factors[i].feature,
                          FactorSentence(top_factors[i]))]
        Appended(p) == p.text # ""
    IN  << Part("severity", 0, "", SeveritySentence(loss_percentage)),
           Part("header", 0, "", "Main reasons for this assessment:") >>
        \o SelectSeq(lines, Appended)

\* a / b rounded toward zero, b # 0
SignedDiv(a, b) == IF b > 0 THEN FDiv(a, b) ELSE FDiv(-a, -b)

\* lines 144-155: the values the trained path has for the model's columns;
\* NoneVal stands for a column that is not among them
feature_values_get(name, ndvi_before, ndvi_current, weather, latitude, longitude) ==
    CASE name = "Agriculture_Health_Index_mean" -> FDiv(ndvi_before + ndvi_current, 2)
      [] name = "NDVI_after_mean" -> ndvi_current
      [] name = "NDVI_before_mean" -> ndvi_before
      [] name = "NDVI_change_mean" -> ndvi_current - ndvi_before
      [] name = "NDVI_percent_change_mean" ->
             IF ndvi_before # 0
             THEN SignedDiv((ndvi_current - ndvi_before) * 100 * Milli, ndvi_before)
             ELSE 0
      [] name = "precipitation_total_mm_mean" -> weather.rainfall
      [] name = "latitude" -> latitude
      [] name = "longitude" -> longitude
      [] OTHER -> NoneVal

\* lines 157-169: every column without a value is filled with 0
InputVector(trained_features, ndvi_before, ndvi_current, weather, latitude, longitude) ==
    [i \in 1..Len(trained_features) |->
        LET v == feature_values_get(trained_features[i], ndvi_before, ndvi_current,
                                    weather, latitude, longitude)
        IN  IF v = NoneVal THEN 0 ELSE v]

\* lines 139-206: the path through the trained model
TrainedResult(trained, ndvi_before, ndvi_current, weather, latitude, longitude) ==
    LET input_vector == InputVector(trained.features, ndvi_before, ndvi_current,
                                    weather, latitude, longitude)
        predicted_loss == Max(0, Min(100 * Milli, trained.model))
        n == Min(Len(trained.features), Len(trained.importances))
        explanations ==
            SortByImportance(
                [i \in 1..n |->
                    Explanation(trained.features[i], input_vector[i],
                                trained.importances[i],
                                UnitRatio(Abs(input_vector[i])))])
    IN  [predicted_loss |-> predicted_loss,
         weather_factors |-> weather,
         feature_explanations |-> explanations,
         readable_explanation |->
             generate_readable_explanation(explanations, predicted_loss),
         confidence |-> 950]

\* lines 212-220: the live feature vector
LiveFeatures(ndvi_before, ndvi_current, weather, days_since_sowing) ==
    << ndvi_before, ndvi_current, weather.rainfall, weather.temperature,
       weather.humidity, weather.wind_speed, days_since_sowing >>

\* lines 211-257: the path through the rule-based model; the division of
\* line 235 raises when a feature value is -1
RuleResult(features, weather) ==
    IF \E i \in 1..Len(features) : features[i] + Milli = 0
    THEN Raise("ZeroDivisionError")
    ELSE LET predicted_loss == Max(0, Min(100 * Milli, predict(features)))
             importance_values == get_feature_importance(features)
             explanations ==
                 SortByImportance(
                     [i \in 1..Len(feature_names) |->
                         Explanation(feature_names[i], features[i],
                                     importance_values[i], UnitRatio(features[i]))])
         IN  Return([predicted_loss |-> predicted_loss,
                     weather_factors |-> weather,
                     feature_explanations |-> explanations,
                     readable_explanation |->
                         generate_readable_explanation(explanations, predicted_loss),
                     confidence |-> 850])

\* predict_with_explanation(ndvi_before, ndvi_current, latitude, longitude,
\* days_since_sowing) called with the generator in state r, in a process
\* whose ML imports succeeded or not and that finds the given model file
predict_with_explanation(r, ml_available, artifact, ndvi_before, ndvi_current, latitude, longitude, days_since_sowing) ==
    LET trained == load_trained_model(ml_available, artifact)
        weather == get_weather_simulation(r, latitude, longitude)
    IN  IF weather.kind = "raise" THEN weather
        ELSE IF UseTrainedModel(trained)
        THEN Return(TrainedResult(trained, ndvi_before, ndvi_current, weather.value,
                                  latitude, longitude))
        ELSE RuleResult(LiveFeatures(ndvi_before, ndvi_current, weather.value,
                                     days_since_sowing),
                        weather.value)

---------------------------------------------------------------------------
(* The two command-line entry points.  argv is sys.argv[1:], so that       *)
(* len(sys.argv) = Len(argv) + 1; a process ends with what it printed on   *)
(* standard output, its exit status, and whether a traceback ended it.     *)

\* float(s) on the argument strings of the model
float(token) ==
    CASE token = "0.1" -> Return(100)
      [] OTHER -> Raise("ValueError")

Process(stdout, status, traceback) ==
    [stdout |-> stdout, status |-> status, traceback |-> traceback]

NoOutput == [none |-> TRUE]

OfflineAlwaysReturned(offline_result) == TRUE

\* line 270: `if offline_result.get('success'):`
OfflineSucceeded(offline_result) ==
    "success" \in DOMAIN offline_result /\ offline_result.success

\* analyze_crop_loss as one call: lines 260-273, with the provider answering
\* p and the offline tier reading file d at time today
analyze_crop_loss(r, ee, a, p, d, today) ==
    LET real_time == analyze_crop_loss_real_time(r, a, p)
        offline_result == analyze_crop_loss_offline(a, d, today)
        g == IF ee THEN RealTimeRng(r, p) ELSE r
    IN  IF ee /\ real_time.kind = "return" THEN real_time
        ELSE IF OfflineSucceeded(offline_result) THEN Return(offline_result)
        ELSE analyze_crop_loss_simulation(g, a)

AnalyzeRng(r, ee, a, p, d, today) ==
    LET real_time == analyze_crop_loss_real_time(r, a, p)
        g == IF ee THEN RealTimeRng(r, p) ELSE r
    IN  IF ee /\ real_time.kind = "return" THEN g
        ELSE IF OfflineSucceeded(analyze_crop_loss_offline(a, d, today)) THEN g
        ELSE SimRng(g, a)

\* gee-analysis.py lines 281-288: the body of the try block
GeeBody(r, ee, argv, p, d, today) ==
    LET latitude == float(argv[1])
        longitude == float(argv[2])
        crop_type == argv[3]
        field_area == float(argv[4])
    IN  IF latitude.kind = "raise" THEN latitude
        ELSE IF longitude.kind = "raise" THEN longitude
        ELSE IF field_area.kind = "raise" THEN field_area
        ELSE analyze_crop_loss(r, ee,
                 [latitude |-> latitude.value, longitude |-> longitude.value,
                  crop_type |-> crop_type, field_area |-> field_area.value],
                 p, d, today)

GeeParses(argv) ==
    /\ Len(argv) + 1 = 5
    /\ float(argv[1]).kind = "return"
    /\ float(argv[2]).kind = "return"
    /\ float(argv[4]).kind = "return"

\* gee-analysis.py lines 288-292: print the result, or catch and report
GeeExcept(out) ==
    IF out.kind = "raise"
    THEN Process([error |-> "Analysis failed", exception |-> out.value.exception], 1, FALSE)
    ELSE Process(out.value, 0, FALSE)

\* gee-analysis.py lines 276-292
gee_main(r, ee, argv, p, d, today) ==
    IF Len(argv) + 1 # 5
    THEN Process([error |-> "Usage"], 1, FALSE)
    ELSE GeeExcept(GeeBody(r, ee, argv, p, d, today))

\* xai-explainer.py lines 353-377: the body of the try block
XaiBody(r, ml_available, artifact, argv) ==
    LET ndvi_before == float(argv[1])
        ndvi_current == float(argv[2])
        latitude == float(argv[3])
        longitude == float(argv[4])
        days_since_sowing ==
            IF Len(argv) + 1 > 5 THEN float(argv[5]) ELSE Return(60 * Milli)
        crop_type == IF Len(argv) + 1 > 6 THEN argv[6] ELSE "rice"
        parsed == <<ndvi_before, ndvi_current, latitude, longitude, days_since_sowing>>
    IN  IF \E i \in 1..5 : parsed[i].kind = "raise" THEN Raise("ValueError")
        ELSE LET result ==
                     predict_with_explanation(r, ml_available, artifact,
                         ndvi_before.value, ndvi_current.value, latitude.value,
                         longitude.value, days_since_sowing.value)
             IN  IF result.kind = "raise" THEN result
                 ELSE Return([success |-> TRUE,
                              xai_prediction |-> result.value,
                              pmfby_eligibility |->
                                  check_pmfby_eligibility_with_explanation(
                                      result.value.predicted_loss, crop_type,
                                      result.value.feature_explanations),
                              explanation_summary |-> result.value.readable_explanation])

XaiParses(argv) ==
    /\ Len(argv) + 1 >= 5
    /\ \A i \in 1..4 : float(argv[i]).kind = "return"
    /\ Len(argv) + 1 > 5 => float(argv[5]).kind = "return"

XaiExceptMissing(out) ==
    IF out.kind = "raise" THEN Process(NoOutput, 1, TRUE) ELSE Process(out.value, 0, FALSE)

\* xai-explainer.py lines 377-381: print the output, or catch and report
XaiExcept(out) ==
    IF out.kind = "raise"
    THEN Process([success |-> FALSE, error |-> out.value.exception], 0, FALSE)
    ELSE Process(out.value, 0, FALSE)

\* xai-explainer.py main(): lines 347-381
xai_main(r, ml_available, artifact, argv) ==
    IF Len(argv) + 1 < 5
    THEN Process([success |-> FALSE, error |-> "Usage"], 0, FALSE)
    ELSE XaiExcept(XaiBody(r, ml_available, artifact, argv))

---------------------------------------------------------------------------
(* Inputs of the model *)

\* query points (latitude, longitude): Chevella itself, a point next to
\* (0, 0), and a latitude that parsed as nan
Points == {<<17200, 78100>>, <<100, 100>>, <<NaN, 78100>>}

FinitePoints == {q \in Points : IsFinite(q[1]) /\ IsFinite(q[2])}

CropTypes == {"rice", "wheat", "Cotton"}

FieldAreas == {1000, 2500}

NdviBefore == {NoneVal, 0, 500}

NdviCurrent == {NoneVal, -500, 300, 600}

\* a fault makes the values it hides irrelevant: one answer stands for each
ProviderAnswers ==
    [fault : {"none"}, before : NdviBefore, current : NdviCurrent]
    \cup {[fault |-> "query", before |-> NoneVal, current |-> NoneVal],
          [fault |-> "thumb", before |-> 500, current |-> 300]}

CsvRow(v, c, d, n, t, r, h) ==
    [Village |-> v, Crop_Variety |-> c, Day |-> d, NDVI_Value |-> n,
     Temperature_Max_C |-> t, Rainfall_mm |-> r, Humidity_Percent |-> h]

CsvRows ==
    { CsvRow("Chevella", "cotton", 10, 400, 30, 20, 50),
      CsvRow("Manchal", "Rice", 10, 300, 36, 5, 25),
      CsvRow("Chevella", "Rice", 3, 480, 35, 10, 30),
      CsvRow("Kandukur", "rice", 17, -200, 40, 0, 20),
      CsvRow("Manchal", "Rice", 18, 600, 30, 20, 50),
      CsvRow("Manchal", "Rice", 12, 560, 30, 20, 50) }

Datasets == UNION {[1..n -> CsvRows] : n \in 0..MaxRows}

NoFile == [exists |-> FALSE, rows |-> <<>>]

Files == {NoFile} \cup {[exists |-> TRUE, rows |-> rows] : rows \in Datasets}

\* datetime.now(): midnight of day 10, and later that day
Todays == {10 * TicksPerDay, 10 * TicksPerDay + 1}

LossInputs == {0, 19900, 20000, 24999, 25000, 29999, 30000, 100000}

EligibilityCrops ==
    {"rice", "wheat", "maize", "cotton", "sugarcane", "Cotton", "millet", "default"}

ExplanationLists ==
    { <<>>,
      << [feature |-> "ndvi_current", contribution |-> 50],
         [feature |-> "rainfall", contribution |-> 0],
         [feature |-> "wind_speed", contribution |-> 20],
         [feature |-> "humidity", contribution |-> 5] >> }

\* feature vectors for direct calls of the rule-based model: NDVI pairs on
\* both sides of no change, weather on both sides of every threshold
PredictNdviBefore == {-200, 0, 300, 500}

PredictNdviCurrent == {-100, 0, 300, 600, 900}

Rainfalls == {2000, 5000, 15000, 30000, 35000}

Temperatures == {20000, 22000, 30000, 38000, 40000}

Humidities == {30000, 40000, 60000, 85000, 90000}

WindSpeeds == {10000, 20000, 25000}

FeatureVectors ==
    {<<b, c, r, t, h, w, 60 * Milli>> :
        b \in PredictNdviBefore, c \in PredictNdviCurrent, r \in Rainfalls,
        t \in Temperatures, h \in Humidities, w \in WindSpeeds}

\* points for the explainer: the query points and one with a dry forecast
ExplainPoints == Points \cup {<<17900, 0>>}

ExplainNdviBefore == PredictNdviBefore \cup {-1000}

DaysSinceSowing == {60 * Milli, 30 * Milli}

\* model files: none, an unreadable one, one trained on the rule model's
\* seven columns and one trained on another schema
Artifacts ==
    { NoArtifact,
      [exists |-> TRUE, readable |-> FALSE, feature_names |-> <<>>,
       importances |-> <<>>, prediction |-> 0],
      [exists |-> TRUE, readable |-> TRUE, feature_names |-> feature_names,
       importances |-> <<250000, 300000, 200000, 150000, 50000, 30000, 20000>>,
       prediction |-> 42000],
      [exists |-> TRUE, readable |-> TRUE,
       feature_names |-> <<"NDVI_before_mean", "NDVI_after_mean",
                           "precipitation_total_mm_mean", "vegetation_health_encoded",
                           "season_encoded">>,
       importances |-> <<300000, 400000, 100000, 150000, 50000>>,
       prediction |-> 42000] }

\* command lines: up to MaxArgs arguments, each one a number or not
Tokens == {"0.1", "abc"}

Argvs == UNION {[1..n -> Tokens] : n \in 0..MaxArgs}

\* files the estimator's process may find
MainFiles == {NoFile, [exists |-> TRUE, rows |-> <<>>]}

\* scenes the provider may hold for one date window
MaxScenes == 2

\* the provider's answer when its before window holds n scenes and its
\* current window m scenes: the median of an empty collection has no NDVI
ProviderScenes(n, m) ==
    [fault |-> "none",
     before |-> IF n = 0 THEN NoneVal ELSE 500,
     current |-> IF m = 0 THEN NoneVal ELSE 300,
     scenes_before |-> n, scenes_current |-> m]

SceneAnswers == {ProviderScenes(n, m) : n, m \in 0..MaxScenes}

\* seeds the generator of a serving host may have started from
HostSeeds == EntropySeeds \cup {30}

\* satellite estimates a serving host computes before it is restarted
MaxEstimates == 2

\* reads of the model file a serving host makes before it is restarted
MaxLoads == 2

\* a serving host has the ML libraries installed (lines 11-17)
HostMlAvailable == TRUE

\* NDVI pairs the serving host is asked about
HostNdviBefore == {500}

---------------------------------------------------------------------------
(* State of a sequential host: one request at a time *)

Args(q, crop_type, field_area) ==
    [latitude |-> q[1], longitude |-> q[2], crop_type |-> crop_type,
     field_area |-> field_area]

NoCall == [fn |-> "none", args |-> <<>>]

NoRet == [kind |-> "none", value |-> <<>>]

NoEnv == [file |-> NoFile, today |-> 0]

NoThreads == <<>>

\* the three values the simulation is asked to reproduce
SimTriple(v) ==
    [ndvi_before |-> v.ndvi_before, ndvi_current |-> v.ndvi_current,
     loss_percentage |-> v.loss_percentage]

NoTriple == [ndvi_before |-> 0, ndvi_current |-> 0, loss_percentage |-> 0]

\* observer after a simulation call with arguments a that ended as out
ObsSim(o, a, out) ==
    IF out.kind = "return" /\ <<a.latitude, a.longitude>> = o.point
    THEN [o EXCEPT !.calls = Min(@ + 1, 2),
                   !.first = IF o.calls = 0 THEN SimTriple(out.value) ELSE @,
                   !.last = SimTriple(out.value)]
    ELSE IF out.kind = "return" /\ o.calls = 1 THEN [o EXCEPT !.other = TRUE]
    ELSE o

\* observer after another use of the generator
ObsOther(o) == IF o.calls = 1 THEN [o EXCEPT !.other = TRUE] ELSE o

Init ==
    /\ EE_AVAILABLE \in BOOLEAN
    /\ rng \in {random_seed(s) : s \in EntropySeeds}
    /\ pc = "idle"
    /\ call = NoCall
    /\ tiers = <<>>
    /\ outs = <<>>
    /\ env = NoEnv
    /\ ret = NoRet
    /\ obs \in {[point |-> q, calls |-> 0, first |-> NoTriple, last |-> NoTriple,
                 other |-> FALSE] : q \in FinitePoints}
    /\ thr = NoThreads
    /\ loads = 0
    /\ sat = <<>>

Ready == pc \in {"idle", "done"}

FirstTierOffline(ee) == "offline"

\* line 263: the satellite tier comes first when Earth Engine is available
FirstTier(ee) == IF ee THEN "satellite" ELSE "offline"

\* analyze_crop_loss is entered: line 263
CallAnalyzeCropLoss(q, crop_type, field_area) ==
    /\ Ready
    /\ call' = [fn |-> "analyze_crop_loss", args |-> Args(q, crop_type, field_area)]
    /\ pc' = FirstTier(EE_AVAILABLE)
    /\ tiers' = <<>>
    /\ outs' = <<>>
    /\ env' = NoEnv
    /\ ret' = NoRet
    /\ UNCHANGED <<EE_AVAILABLE, rng, obs, thr, loads, sat>>

AfterSatelliteRetry == "satellite"

\* lines 266-269: the except clause logs and falls out of the if, to the
\* offline tier
AfterSatelliteFailure == "offline"

\* lines 264-267: the satellite tier, with the provider answering p
SatelliteTier(p) ==
    /\ pc = "satellite"
    /\ RealTimeDraws(p) => rng.pos < MaxStream
    /\ LET out == analyze_crop_loss_real_time(rng, call.args, p)
       IN  /\ tiers' = Append(tiers, "satellite")
           /\ outs' = Append(outs, out)
           /\ rng' = RealTimeRng(rng, p)
           /\ obs' = IF RealTimeDraws(p) THEN ObsOther(obs) ELSE obs
           /\ IF out.kind = "return"
              THEN ret' = out /\ pc' = "done"
              ELSE ret' = ret /\ pc' = AfterSatelliteFailure
    /\ UNCHANGED <<EE_AVAILABLE, call, env, thr, loads, sat>>

\* lines 269-271: the offline tier, reading file d at time today
OfflineTier(d, today) ==
    /\ pc = "offline"
    /\ LET out == Return(analyze_crop_loss_offline(call.args, d, today))
       IN  /\ tiers' = Append(tiers, "offline")
           /\ outs' = Append(outs, out)
           /\ IF OfflineSucceeded(out.value)
              THEN ret' = out /\ pc' = "done"
              ELSE ret' = ret /\ pc' = "simulation"
    /\ UNCHANGED <<EE_AVAILABLE, rng, call, env, obs, thr, loads, sat>>

\* line 273: the simulation tier; what it returns or raises goes to the caller
SimulationTier ==
    /\ pc = "simulation"
    /\ LET out == analyze_crop_loss_simulation(rng, call.args)
       IN  /\ tiers' = Append(tiers, "simulation")
           /\ outs' = Append(outs, out)
           /\ ret' = out
           /\ obs' = ObsSim(obs, call.args, out)
    /\ rng' = SimRng(rng, call.args)
    /\ pc' = "done"
    /\ UNCHANGED <<EE_AVAILABLE, call, env, thr, loads, sat>>

\* a direct call of analyze_crop_loss_simulation
CallSimulation(q, crop_type, field_area) ==
    /\ Ready
    /\ LET a == Args(q, crop_type, field_area)
           out == analyze_crop_loss_simulation(rng, a)
       IN  /\ call' = [fn |-> "analyze_crop_loss_simulation", args |-> a]
           /\ ret' = out
           /\ obs' = ObsSim(obs, a, out)
           /\ rng' = SimRng(rng, a)
    /\ pc' = "done"
    /\ tiers' = <<>>
    /\ outs' = <<>>
    /\ env' = NoEnv
    /\ UNCHANGED <<EE_AVAILABLE, thr, loads, sat>>

\* a call of get_weather_simulation
CallWeather(q) ==
    /\ Ready
    /\ call' = [fn |-> "get_weather_simulation",
                args |-> [latitude |-> q[1], longitude |-> q[2]]]
    /\ ret' = get_weather_simulation(rng, q[1], q[2])
    /\ rng' = WeatherRng(rng, q[1], q[2])
    /\ obs' = IF WeatherSeedRaises(q[1], q[2]) THEN obs ELSE ObsOther(obs)
    /\ pc' = "done"
    /\ tiers' = <<>>
    /\ outs' = <<>>
    /\ env' = NoEnv
    /\ UNCHANGED <<EE_AVAILABLE, thr, loads, sat>>

\* a direct call of analyze_crop_loss_offline, reading file d at time today
CallOffline(q, crop_type, field_area, d, today) ==
    /\ Ready
    /\ LET a == Args(q, crop_type, field_area)
       IN  /\ call' = [fn |-> "analyze_crop_loss_offline", args |-> a]
           /\ ret' = Return(analyze_crop_loss_offline(a, d, today))
    /\ env' = [file |-> d, today |-> today]
    /\ pc' = "done"
    /\ tiers' = <<>>
    /\ outs' = <<>>
    /\ UNCHANGED <<EE_AVAILABLE, rng, obs, thr, loads, sat>>

\* a call of check_pmfby_eligibility_with_explanation
CallEligibility(loss_percentage, crop_type, explanations) ==
    /\ Ready
    /\ call' = [fn |-> "check_pmfby_eligibility_with_explanation",
                args |-> [loss_percentage |-> loss_percentage, crop_type |-> crop_type,
                          explanations |-> explanations]]
    /\ ret' = Return(check_pmfby_eligibility_with_explanation(
                         loss_percentage, crop_type, explanations))
    /\ pc' = "done"
    /\ tiers' = <<>>
    /\ outs' = <<>>
    /\ env' = NoEnv
    /\ UNCHANGED <<EE_AVAILABLE, rng, obs, thr, loads, sat>>

\* a call of ml_model.predict; the number it returns is kept under the name
\* predict_with_explanation gives it
CallPredict(features) ==
    /\ Ready
    /\ call' = [fn |-> "predict", args |-> [features |-> features]]
    /\ ret' = Return([predicted_loss |-> predict(features)])
    /\ pc' = "done"
    /\ tiers' = <<>>
    /\ outs' = <<>>
    /\ env' = NoEnv
    /\ UNCHANGED <<EE_AVAILABLE, rng, obs, thr, loads, sat>>

\* a call of predict_with_explanation
CallPredictWithExplanation(ml_available, artifact, ndvi_before, ndvi_current, q, days_since_sowing) ==
    /\ Ready
    /\ call' = [fn |-> "predict_with_explanation",
                args |-> [ndvi_before |-> ndvi_before, ndvi_current |-> ndvi_current,
                          latitude |-> q[1], longitude |-> q[2],
                          days_since_sowing |-> days_since_sowing,
                          ml_available |-> ml_available, artifact |-> artifact]]
    /\ ret' = predict_with_explanation(rng, ml_available, artifact, ndvi_before,
                                       ndvi_current, q[1], q[2], days_since_sowing)
    /\ loads' = loads + ArtifactLoads(ml_available, artifact)
    /\ rng' = WeatherRng(rng, q[1], q[2])
    /\ obs' = IF WeatherSeedRaises(q[1], q[2]) THEN obs ELSE ObsOther(obs)
    /\ pc' = "done"
    /\ tiers' = <<>>
    /\ outs' = <<>>
    /\ env' = NoEnv
    /\ UNCHANGED <<EE_AVAILABLE, thr, sat>>

\* a run of gee-analysis.py with command line argv
GeeMain(argv, p, d, today) ==
    /\ Ready
    /\ call' = [fn |-> "gee_main", args |-> [argv |-> argv]]
    /\ ret' = Return(gee_main(rng, EE_AVAILABLE, argv, p, d, today))
    /\ rng' = IF GeeParses(argv)
              THEN AnalyzeRng(rng, EE_AVAILABLE,
                       Args(<<float(argv[1]).value, float(argv[2]).value>>, argv[3],
                            float(argv[4]).value),
                       p, d, today)
              ELSE rng
    /\ env' = [file |-> d, today |-> today]
    /\ pc' = "done"
    /\ tiers' = <<>>
    /\ outs' = <<>>
    /\ UNCHANGED <<EE_AVAILABLE, obs, thr, loads, sat>>

\* a run of xai-explainer.py with command line argv
XaiMain(ml_available, artifact, argv) ==
    /\ Ready
    /\ call' = [fn |-> "xai_main",
                args |-> [argv |-> argv, ml_available |-> ml_available,
                          artifact |-> artifact]]
    /\ ret' = Return(xai_main(rng, ml_available, artifact, argv))
    /\ rng' = IF XaiParses(argv)
              THEN WeatherRng(rng, float(argv[3]).value, float(argv[4]).value)
              ELSE rng
    /\ loads' = IF XaiParses(argv) THEN loads + ArtifactLoads(ml_available, artifact)
                ELSE loads
    /\ pc' = "done"
    /\ tiers' = <<>>
    /\ outs' = <<>>
    /\ env' = NoEnv
    /\ UNCHANGED <<EE_AVAILABLE, obs, thr, sat>>

Next ==
    \/ \E q \in Points, c \in CropTypes, f \in FieldAreas : CallAnalyzeCropLoss(q, c, f)
    \/ \E p \in ProviderAnswers : SatelliteTier(p)
    \/ \E d \in Files, t \in Todays : OfflineTier(d, t)
    \/ SimulationTier
    \/ \E q \in Points, c \in CropTypes, f \in FieldAreas : CallSimulation(q, c, f)
    \/ \E q \in Points : CallWeather(q)

\* the sequential host: requests run one after the other
Spec == Init /\ [][Next]_vars

\* one call per process, as the command-line entry points make it
NextFunctions ==
    /\ pc = "idle"
    /\ \/ \E q \in Points, c \in CropTypes, f \in FieldAreas, d \in Files, t \in Todays :
              CallOffline(q, c, f, d, t)
       \/ \E l \in LossInputs, c \in EligibilityCrops, e \in ExplanationLists :
              CallEligibility(l, c, e)
       \/ \E f \in FeatureVectors : CallPredict(f)
       \/ \E m \in BOOLEAN, a \in Artifacts, b \in ExplainNdviBefore,
             c \in PredictNdviCurrent, q \in ExplainPoints, d \in DaysSinceSowing :
              CallPredictWithExplanation(m, a, b, c, q, d)
       \/ \E argv \in Argvs, p \in ProviderAnswers, d \in MainFiles, t \in Todays :
              GeeMain(argv, p, d, t)
       \/ \E m \in BOOLEAN, a \in Artifacts, argv \in Argvs : XaiMain(m, a, argv)

\* the functions outside the tier orchestration, called directly on inputs
\* drawn from the sets above
SpecFunctions == Init /\ [][NextFunctions]_vars

---------------------------------------------------------------------------
(* A host with Earth Engine that serves satellite estimates one after the  *)
(* other, the provider holding some number of scenes for each window.      *)

InitScenes ==
    /\ EE_AVAILABLE = TRUE
    /\ rng \in {random_seed(s) : s \in HostSeeds}
    /\ pc = "idle"
    /\ call = NoCall
    /\ tiers = <<>>
    /\ outs = <<>>
    /\ env = NoEnv
    /\ ret = NoRet
    /\ obs \in {[point |-> q, calls |-> 0, first |-> NoTriple, last |-> NoTriple,
                 other |-> FALSE] : q \in FinitePoints}
    /\ thr = NoThreads
    /\ loads = 0
    /\ sat = <<>>

\* what is on record of a satellite estimate: the scenes the provider held
\* and the confidence the estimate reports
SceneRecord(p, estimate) ==
    [scenes_before |-> p.scenes_before, scenes_current |-> p.scenes_current,
     confidence |-> estimate.confidence]

\* a direct call of analyze_crop_loss_real_time, the provider answering p
CallRealTime(q, crop_type, field_area, p) ==
    /\ Ready
    /\ EE_AVAILABLE
    /\ Len(sat) < MaxEstimates
    /\ RealTimeDraws(p) => rng.pos < MaxStream
    /\ LET a == Args(q, crop_type, field_area)
           out == analyze_crop_loss_real_time(rng, a, p)
       IN  /\ call' = [fn |-> "analyze_crop_loss_real_time", args |-> a]
           /\ ret' = out
           /\ sat' = IF out.kind = "return"
                     THEN Append(sat, SceneRecord(p, out.value)) ELSE sat
    /\ rng' = RealTimeRng(rng, p)
    /\ obs' = IF RealTimeDraws(p) THEN ObsOther(obs) ELSE obs
    /\ pc' = "done"
    /\ tiers' = <<>>
    /\ outs' = <<>>
    /\ env' = NoEnv
    /\ UNCHANGED <<EE_AVAILABLE, thr, loads>>

NextScenes ==
    \E q \in FinitePoints, c \in CropTypes, f \in FieldAreas, p \in SceneAnswers :
        CallRealTime(q, c, f, p)

SpecScenes == InitScenes /\ [][NextScenes]_vars

---------------------------------------------------------------------------
(* A host that imports xai-explainer.py once and serves explanation        *)
(* requests one after the other in the same process.                       *)

NextLoads ==
    /\ loads < MaxLoads
    /\ \E a \in Artifacts, b \in HostNdviBefore, c \in PredictNdviCurrent,
          q \in ExplainPoints, d \in DaysSinceSowing :
           CallPredictWithExplanation(HostMlAvailable, a, b, c, q, d)

SpecLoads == Init /\ [][NextLoads]_vars

---------------------------------------------------------------------------
(* A host that runs two requests of analyze_crop_loss_simulation as        *)
(* threads of one process.  The threads share the `random` module's        *)
(* generator; random.seed and each draw are atomic, and a thread switch    *)
(* may fall between any two of them.                                       *)

Threads == {1, 2}

\* a request with the default crop_type and field_area of line 260
ThreadArgs(q) == Args(q, "rice", 1000)

InitConc ==
    /\ EE_AVAILABLE \in BOOLEAN
    /\ rng \in {random_seed(s) : s \in EntropySeeds}
    /\ pc = "idle"
    /\ call = NoCall
    /\ tiers = <<>>
    /\ outs = <<>>
    /\ env = NoEnv
    /\ ret = NoRet
    /\ obs \in {[point |-> q, calls |-> 0, first |-> NoTriple, last |-> NoTriple,
                 other |-> FALSE] : q \in FinitePoints}
    /\ thr \in [Threads -> {[pc |-> "seed", args |-> ThreadArgs(q), draws |-> <<>>,
                             result |-> NoRet] : q \in FinitePoints}]
    /\ loads = 0
    /\ sat = <<>>

\* line 193 in thread t
ThreadSeed(t) ==
    /\ thr[t].pc = "seed"
    /\ rng' = SimSeed(rng, thr[t].args.latitude, thr[t].args.longitude)
    /\ thr' = [thr EXCEPT ![t].pc = "draw"]
    /\ UNCHANGED <<EE_AVAILABLE, pc, call, tiers, outs, env, ret, obs, loads, sat>>

\* whether the draws u are all that the call makes
ThreadDrawn(u) == Len(u) >= 2 /\ Len(u) = SimDraws(u[1], u[2])

\* one of the draws of lines 196-215 in thread t
ThreadDraw(t) ==
    /\ thr[t].pc = "draw"
    /\ rng' = Advance(rng, 1)
    /\ LET u == Append(thr[t].draws, random(rng))
       IN  thr' = [thr EXCEPT ![t].draws = u,
                              ![t].pc = IF ThreadDrawn(u) THEN "return" ELSE "draw"]
    /\ UNCHANGED <<EE_AVAILABLE, pc, call, tiers, outs, env, ret, obs, loads, sat>>

\* lines 219-256 in thread t
ThreadReturn(t) ==
    /\ thr[t].pc = "return"
    /\ thr' = [thr EXCEPT ![t].result = Return(SimFromDraws(thr[t].draws, thr[t].args)),
                          ![t].pc = "done"]
    /\ UNCHANGED <<EE_AVAILABLE, rng, pc, call, tiers, outs, env, ret, obs, loads, sat>>

NextConc == \E t \in Threads : ThreadSeed(t) \/ ThreadDraw(t) \/ ThreadReturn(t)

SpecConc == InitConc /\ [][NextConc]_vars

---------------------------------------------------------------------------
(* Properties of the tier orchestrator (checked under Spec) *)

OrchDone == call.fn = "analyze_crop_loss" /\ pc = "done"

\* a tier outcome that makes the orchestrator move on
TierFailed(out) == out.kind = "raise" \/ ~out.value.success

\* a tier outcome that carries an estimate
IsEstimate(out) == out.kind = "return" /\ out.value.success

\* C1: analyze_crop_loss never fails to its caller: whatever the satellite
\* and offline tiers do and whatever the input, the finished call has
\* returned an estimate and no exception has left it.
C1_NeverFails == OrchDone => ret.kind = "return"

\* C2: the tier order is fixed.  The tiers attempted are a prefix of
\* satellite, offline, simulation (offline, simulation when Earth Engine is
\* unavailable), starting with the satellite tier whenever it is available;
\* a tier is attempted only after every earlier one failed; the call ends
\* only on a success or on the simulation tier; and the caller gets the
\* outcome of the last tier attempted, whatever confidence any tier reports.
C2_TierOrder ==
    call.fn = "analyze_crop_loss" =>
        LET order == IF EE_AVAILABLE THEN <<"satellite", "offline", "simulation">>
                     ELSE <<"offline", "simulation">>
            n == Len(tiers)
        IN  /\ n <= Len(order)
            /\ Len(outs) = n
            /\ \A i \in 1..n : tiers[i] = order[i]
            /\ \A i \in 1..(n - 1) : TierFailed(outs[i])
            /\ pc \in {"satellite", "offline", "simulation"} =>
                   /\ n < Len(order)
                   /\ pc = order[n + 1]
                   /\ \A i \in 1..n : TierFailed(outs[i])
            /\ pc = "done" =>
                   /\ n >= 1
                   /\ ret = outs[n]
                   /\ IsEstimate(outs[n]) \/ tiers[n] = "simulation"

\* C2 witness: a call that went through all three tiers in order and
\* returned the simulation estimate.
C2_Witness ==
    /\ OrchDone
    /\ tiers = <<"satellite", "offline", "simulation">>
    /\ IsEstimate(ret)

\* C3: every estimate analyze_crop_loss returns has a data_source naming the
\* tier that produced it (satellite, offline_csv or simulation).
C3_DataSource ==
    (OrchDone /\ ret.kind = "return") =>
        /\ "data_source" \in DOMAIN ret.value
        /\ ret.value.data_source =
               (CASE tiers[Len(tiers)] = "satellite" -> "satellite"
                  [] tiers[Len(tiers)] = "offline" -> "offline_csv"
                  [] tiers[Len(tiers)] = "simulation" -> "simulation")

\* the estimates computed so far by the running or last operation
Estimates ==
    {outs[i].value : i \in {j \in 1..Len(outs) : IsEstimate(outs[j])}}
    \cup (IF call.fn = "analyze_crop_loss_simulation" /\ ret.kind = "return"
          THEN {ret.value} ELSE {})

\* C4: every estimate computed by a tier has 0 <= loss_percentage <= 100,
\* also when the current NDVI is negative or above the before NDVI.
C4_LossInRange ==
    \A e \in Estimates : 0 <= e.loss_percentage /\ e.loss_percentage <= 100 * Milli

\* C5: every estimate computed by a tier has
\* affected_area = field_area * loss_percentage / 100 and
\* 0 <= affected_area <= field_area.
C5_AffectedArea ==
    \A e \in Estimates :
        /\ e.affected_area = (call.args.field_area * e.loss_percentage) \div (100 * Milli)
        /\ 0 <= e.affected_area
        /\ e.affected_area <= call.args.field_area

\* C6: the simulation is deterministic in the coordinates: every call at the
\* watched point returns the ndvi_before, ndvi_current and loss_percentage
\* its first call returned, whatever ran in between.
C6_Deterministic == obs.calls >= 1 => obs.last = obs.first

\* C6 witness: the watched point was simulated twice, with another use of
\* the generator between the two calls.
C6_Witness == obs.calls = 2 /\ obs.other

---------------------------------------------------------------------------
(* Properties of the offline matcher and of the eligibility verdict        *)
(* (checked under SpecFunctions)                                           *)

OfflineDone == call.fn = "analyze_crop_loss_offline" /\ pc = "done"

\* rows of the file read whose crop variety equals the requested crop
\* without regard to case and whose date is at most 7 days from the clock
MatchingRows ==
    {i \in 1..Len(env.file.rows) :
        /\ Lower(env.file.rows[i].Crop_Variety) = Lower(call.args.crop_type)
        /\ Abs(env.file.rows[i].Day * TicksPerDay - env.today) <= 7 * TicksPerDay}

\* C8: the offline matcher reports no-match (find_nearest_village_data
\* returns None and analyze_crop_loss_offline returns the success = False
\* no-match object) exactly when the dataset read has no row whose crop
\* variety equals crop_type case-insensitively and whose date lies within 7
\* days of the query date; and with no such row the result always has
\* success = False, so that the orchestrator falls through.
C8_NoMatch ==
    OfflineDone =>
        /\ MatchingRows = {} => ~ret.value.success
        /\ env.file.exists =>
              /\ (ret.value = OfflineFailure(NoMatchText)) <=> (MatchingRows = {})
              /\ (find_nearest_village_data(env.file.rows, call.args.latitude,
                      call.args.longitude, call.args.crop_type, env.today) = Return(0))
                     <=> (MatchingRows = {})

\* C8 witness: the file has a row of the requested crop, but outside the
\* 7-day window, and the call reported no-match.
C8_Witness ==
    /\ OfflineDone
    /\ env.file.exists
    /\ \E i \in 1..Len(env.file.rows) :
           Lower(env.file.rows[i].Crop_Variety) = Lower(call.args.crop_type)
    /\ MatchingRows = {}
    /\ ret.value = OfflineFailure(NoMatchText)

\* C9: the row the offline matcher selects always satisfies the crop and
\* date filter: a successful result references (village, date, NDVI) a row
\* that passes the filter, so when only one village has such a row the
\* result names that village, however close the other villages are.
C9_SelectedPasses ==
    (OfflineDone /\ ret.value.success) =>
        \E i \in MatchingRows :
            /\ env.file.rows[i].Village = ret.value.location
            /\ env.file.rows[i].Day = ret.value.date
            /\ env.file.rows[i].NDVI_Value = ret.value.ndvi_value

\* C9 witness: the query point is Chevella itself, Chevella's only row is of
\* another crop, Manchal (15 km away) has the only row passing the filter,
\* and the result references Manchal.
C9_Witness ==
    /\ OfflineDone
    /\ <<call.args.latitude, call.args.longitude>> = village_coords_get("Chevella")
    /\ Len(env.file.rows) = 2
    /\ env.file.rows[1].Village = "Chevella"
    /\ 1 \notin MatchingRows
    /\ Abs(env.file.rows[1].Day * TicksPerDay - env.today) <= 7 * TicksPerDay
    /\ MatchingRows = {2}
    /\ env.file.rows[2].Village = "Manchal"
    /\ ret.value.success
    /\ ret.value.location = "Manchal"

EligibilityDone == call.fn = "check_pmfby_eligibility_with_explanation" /\ pc = "done"

\* the PMFBY threshold table as the specification states it
StatedThreshold(crop_type) ==
    IF crop_type \in {"rice", "wheat", "maize"} THEN 20 * Milli
    ELSE IF crop_type = "cotton" THEN 25 * Milli
    ELSE IF crop_type = "sugarcane" THEN 30 * Milli
    ELSE 20 * Milli

\* C10: eligible = (loss_percentage >= threshold), the threshold being 20
\* for rice, wheat and maize, 25 for cotton, 30 for sugarcane and 20 for any
\* other crop; the boundary is inclusive (rice: 19.9 not eligible, 20.0
\* eligible); the verdict returns the threshold and the loss it used.
C10_Eligibility ==
    EligibilityDone =>
        /\ ret.value.threshold = StatedThreshold(call.args.crop_type)
        /\ ret.value.loss_percentage = call.args.loss_percentage
        /\ ret.value.eligible <=>
               (call.args.loss_percentage >= StatedThreshold(call.args.crop_type))
        /\ (call.args.crop_type = "rice" /\ call.args.loss_percentage = 19900)
               => ~ret.value.eligible
        /\ (call.args.crop_type = "rice" /\ call.args.loss_percentage = 20000)
               => ret.value.eligible

\* C10 witness: a loss exactly on the threshold of its crop was found
\* eligible.
C10_Witness ==
    /\ EligibilityDone
    /\ call.args.crop_type = "rice"
    /\ call.args.loss_percentage = 20 * Milli
    /\ ret.value.eligible
    /\ ret.value.threshold = 20 * Milli

---------------------------------------------------------------------------
(* Properties of the rule-based model (checked under SpecFunctions) *)

PredictDone == call.fn = "predict" /\ pc = "done"

\* the stressed weather of the comparison: rainfall 2, temperature 40, wind 25
Stressed(features) ==
    /\ features[3] = 2 * Milli
    /\ features[4] = 40 * Milli
    /\ features[6] = 25 * Milli

\* the same vector with rainfall 15, temperature 30, wind 10
Unstressed(features) ==
    [features EXCEPT ![3] = 15 * Milli, ![4] = 30 * Milli, ![6] = 10 * Milli]

\* C11 as stated: for a fixed ndvi_before, ndvi_current, humidity and
\* days_since_sowing, the prediction with rainfall 2, temperature 40 and wind
\* 25 is strictly greater than the prediction with rainfall 15, temperature
\* 30 and wind 10.
C11_StressStrict ==
    PredictDone /\ Stressed(call.args.features) =>
        ret.value.predicted_loss > predict(Unstressed(call.args.features))

\* C11 as the code has it: the prediction under stress is never smaller than
\* the prediction without, and it is strictly greater whenever the
\* unstressed prediction is below 100 and the stressed one above 0, that is
\* unless both are clamped to the same end of [0, 100].
C11_StressMonotone ==
    PredictDone /\ Stressed(call.args.features) =>
        LET s == ret.value.predicted_loss
            u == predict(Unstressed(call.args.features))
        IN  /\ s >= u
            /\ (u < 100 * Milli /\ s > 0) => s > u

C11_Witness ==
    /\ PredictDone
    /\ Stressed(call.args.features)
    /\ ret.value.predicted_loss < 100 * Milli
    /\ ret.value.predicted_loss > predict(Unstressed(call.args.features))
    /\ predict(Unstressed(call.args.features)) > 0

\* the loss of the rule-based model as the specification states it: the
\* NDVI decline bounded below by 0, plus the stress terms, clamped
StatedRuleLoss(features) ==
    LET decline == Max(0, BaseLoss(features[1], features[2]))
        stress == WeatherStress(features[3], features[4], features[5], features[6])
    IN  Max(0, Min(100 * Milli, decline + stress))

\* C20: the rule-based loss is max(0, (ndvi_before - ndvi_current) /
\* ndvi_before * 100) (0 when ndvi_before <= 0) plus the additive stress
\* terms, clamped to [0, 100]; when ndvi_current > ndvi_before the stress
\* terms are added to 0 and not to a negative decline.
C20_RuleLoss ==
    PredictDone => ret.value.predicted_loss = StatedRuleLoss(call.args.features)

---------------------------------------------------------------------------
(* Properties of predict_with_explanation (checked under SpecFunctions) *)

ExplainDone ==
    call.fn = "predict_with_explanation" /\ pc = "done" /\ ret.kind = "return"

\* positions of the narrative's lines of one kind
PartsOf(narrative, kind) == {i \in 1..Len(narrative) : narrative[i].kind = kind}

\* the severity wording the specification assigns to a loss
StatedSeverity(loss_percentage) ==
    CASE loss_percentage < 10 * Milli -> "good condition"
      [] loss_percentage >= 10 * Milli /\ loss_percentage < 25 * Milli -> "moderate stress"
      [] loss_percentage >= 25 * Milli /\ loss_percentage < 50 * Milli -> "significant damage"
      [] OTHER -> "severe damage"

\* the explanations whose feature is the one a narrative line names
Named(explanations, part) ==
    {i \in 1..Len(explanations) : explanations[i].feature = part.feature}

\* C12: the narrative contains exactly one severity sentence, selected by
\* the loss (< 10 good condition, < 25 moderate stress, < 50 significant
\* damage, otherwise severe damage); it is followed by at most three factor
\* sentences, each about one of the three explanations of highest
\* importance, in descending order of importance.
C12_Narrative ==
    ExplainDone =>
        LET narrative == ret.value.readable_explanation
            explanations == ret.value.feature_explanations
            factors == PartsOf(narrative, "factor")
            Importance(i) ==
                explanations[CHOOSE e \in Named(explanations, narrative[i]) : TRUE].importance
        IN  /\ PartsOf(narrative, "severity") = {1}
            /\ narrative[1].text = StatedSeverity(ret.value.predicted_loss)
            /\ Cardinality(factors) <= 3
            /\ \A i \in factors :
                   /\ Named(explanations, narrative[i]) # {}
                   /\ Cardinality({e \in 1..Len(explanations) :
                          explanations[e].importance > Importance(i)}) < 3
            /\ \A i, j \in factors : i < j => Importance(i) >= Importance(j)

\* three factor sentences led by a weather feature, under a significant loss
C12_Witness ==
    /\ ExplainDone
    /\ Cardinality(PartsOf(ret.value.readable_explanation, "factor")) = 3
    /\ ret.value.readable_explanation[1].text = "significant damage"
    /\ ret.value.readable_explanation[3].feature = "rainfall"
    /\ ret.value.readable_explanation[5].feature = "ndvi_current"

\* C14: whatever model file is on disk, and whether or not it loads, the
\* prediction and the attributions of predict_with_explanation are those of
\* the rule-based model on the live 7-feature vector: the trained model never
\* produces the point estimate, and every explained value is the live value
\* of the feature it is attributed to, none filled in by position or default.
C14_RuleModelOnly ==
    ExplainDone =>
        LET features ==
                LiveFeatures(call.args.ndvi_before, call.args.ndvi_current,
                             ret.value.weather_factors, call.args.days_since_sowing)
            explanations == ret.value.feature_explanations
        IN  /\ ret.value.predicted_loss = predict(features)
            /\ ret.value.confidence = 850
            /\ Len(explanations) = Len(feature_names)
            /\ \A i \in 1..Len(feature_names) :
                   \E e \in 1..Len(explanations) :
                       /\ explanations[e].feature = feature_names[i]
                       /\ explanations[e].value = features[i]
                       /\ explanations[e].importance = get_feature_importance(features)[i]

\* a model trained on another schema was on disk and was loaded
C14_Witness ==
    /\ ExplainDone
    /\ call.args.ml_available
    /\ call.args.artifact.exists
    /\ call.args.artifact.readable
    /\ call.args.artifact.feature_names # feature_names
    /\ ret.value.predicted_loss > 0
    /\ ret.value.predicted_loss # call.args.artifact.prediction

\* position of a feature in the vector handed to the prediction
FeatureIndex(name) == CHOOSE i \in 1..Len(feature_names) : feature_names[i] = name

\* C23: feature_explanations has exactly one entry for each of the seven
\* features of the vector that was passed to the prediction, pairing the
\* feature's name with its value and its importance; the list is sorted by
\* importance in non-increasing order, and entries of equal importance keep
\* the order of the feature vector.
C23_Explanations ==
    ExplainDone =>
        LET features ==
                LiveFeatures(call.args.ndvi_before, call.args.ndvi_current,
                             ret.value.weather_factors, call.args.days_since_sowing)
            explanations == ret.value.feature_explanations
            n == Len(explanations)
        IN  /\ n = 7
            /\ \A e \in 1..n : explanations[e].feature \in {feature_names[i] : i \in 1..7}
            /\ \A d, e \in 1..n :
                   explanations[d].feature = explanations[e].feature => d = e
            /\ \A e \in 1..n :
                   LET i == FeatureIndex(explanations[e].feature)
                   IN  /\ explanations[e].value = features[i]
                       /\ explanations[e].importance = get_feature_importance(features)[i]
            /\ \A d, e \in 1..n :
                   d < e =>
                       \/ explanations[d].importance > explanations[e].importance
                       \/ /\ explanations[d].importance = explanations[e].importance
                          /\ FeatureIndex(explanations[d].feature)
                                 < FeatureIndex(explanations[e].feature)

\* the sort moved a feature forward and left two features of equal
\* importance, humidity and days_since_sowing, in vector order
C23_Witness ==
    /\ ExplainDone
    /\ ret.value.feature_explanations[1].feature = "rainfall"
    /\ \E e \in 1..6 :
           /\ ret.value.feature_explanations[e].feature = "humidity"
           /\ ret.value.feature_explanations[e + 1].feature = "days_since_sowing"
           /\ ret.value.feature_explanations[e].importance
                  = ret.value.feature_explanations[e + 1].importance

\* C27: the factor sentences of the narrative are numbered consecutively
\* from 1: a narrative with k factor sentences (0 <= k <= 3) labels them
\* exactly 1..k, also when a feature among the top three (humidity in
\* [40, 85], wind speed up to 20, days_since_sowing) has no sentence.
C27_ConsecutiveLabels ==
    ExplainDone =>
        LET narrative == ret.value.readable_explanation
            factors == PartsOf(narrative, "factor")
        IN  /\ Cardinality(factors) <= 3
            /\ {narrative[i].label : i \in factors} = 1..Cardinality(factors)

---------------------------------------------------------------------------
(* Properties of the entry points (checked under SpecFunctions) *)

MainDone == call.fn \in {"gee_main", "xai_main"} /\ pc = "done"

\* argument strings that are numbers
NumericTokens == {"0.1"}

\* a required numeric argument is missing or is not a number
BadNumber(argv, positions) ==
    \E i \in positions : i > Len(argv) \/ argv[i] \notin NumericTokens

\* the estimator takes latitude, longitude, crop_type, field_area
GeeMalformed(argv) == Len(argv) # 4 \/ BadNumber(argv, {1, 2, 4})

\* the explainer takes ndvi_before, ndvi_current, latitude, longitude and,
\* optionally, days_since_sowing and crop_type
XaiBadValue(argv) ==
    BadNumber(argv, {1, 2, 3, 4}) \/ (Len(argv) >= 5 /\ argv[5] \notin NumericTokens)

IsFailureObject(object) == "error" \in DOMAIN object

IsEstimateObject(object) ==
    "loss_percentage" \in DOMAIN object \/ "xai_prediction" \in DOMAIN object

\* the process printed a failure object and nothing else, without traceback
FailsCleanly ==
    /\ ~ret.value.traceback
    /\ IsFailureObject(ret.value.stdout)
    /\ ~IsEstimateObject(ret.value.stdout)

---------------------------------------------------------------------------
(* Properties of the estimates of the three tiers (checked under Spec) *)

\* the per-hectare table as the specification states it, looked up with
\* crop_type as the caller gave it
StatedCropValue(crop_type) ==
    CASE crop_type = "rice" -> 40000
      [] crop_type = "wheat" -> 35000
      [] crop_type = "cotton" -> 60000
      [] crop_type = "sugarcane" -> 80000
      [] crop_type = "maize" -> 30000
      [] OTHER -> 40000

\* C15: for every estimate of every tier, estimated_value = affected_area *
\* the per-hectare value of crop_type in the fixed table (rice 40000, wheat
\* 35000, cotton 60000, sugarcane 80000, maize 30000), a crop type that is
\* not in the table using 40000.
C15_EstimatedValue ==
    \A e \in Estimates :
        e.estimated_value = e.affected_area * StatedCropValue(call.args.crop_type)

\* C16: every estimate of every tier has confidence in [0, 100]; the
\* offline tier's is 80 + (5 - d) for a record d whole days from now, and
\* the 7-day date filter leaves d between 0 and 7; the satellite and the
\* simulation tier stay in range for every random draw.
C16_Confidence ==
    /\ \A e \in Estimates : 0 <= e.confidence /\ e.confidence <= 100 * Milli
    /\ \A i \in 1..Len(outs) :
           tiers[i] = "offline" /\ IsEstimate(outs[i]) =>
               \E d \in 0..7 : outs[i].value.confidence = (80 + (5 - d)) * Milli

\* an offline estimate from a record at the edge of the date window, after
\* the satellite tier failed
C16_Witness ==
    /\ OrchDone
    /\ tiers = <<"satellite", "offline">>
    /\ IsEstimate(outs[2])
    /\ outs[2].value.confidence = 78 * Milli

\* positions of the satellite tier among the tiers attempted by the call
SatelliteAttempts == {i \in 1..Len(tiers) : tiers[i] = "satellite"}

---------------------------------------------------------------------------
(* Properties of the offline tier's selection and loss (checked under      *)
(* SpecFunctions)                                                          *)

\* where the specification places a village: its table entry, or (0, 0)
StatedCoords(village) ==
    IF village \in {"Chevella", "Manchal", "Shankarpalle"}
    THEN village_coords_get(village)
    ELSE <<0, 0>>

\* great-circle distance from the query point to row i's village
StatedDistance(i) ==
    LET c == StatedCoords(env.file.rows[i].Village)
    IN  haversine_distance(call.args.latitude, call.args.longitude, c[1], c[2])

\* the result of the offline tier is taken from row i of the file
ResultFromRow(i) ==
    /\ env.file.rows[i].Village = ret.value.location
    /\ env.file.rows[i].Day = ret.value.date
    /\ env.file.rows[i].NDVI_Value = ret.value.ndvi_value

\* C18: among the rows passing the crop and date filter the offline matcher
\* selects the row at minimum great-circle distance from the query point to
\* the row's village, a village outside the coordinate table being measured
\* as if at (0, 0); among rows at the same minimum distance it selects the
\* first in dataset order.
C18_Nearest ==
    OfflineDone =>
        /\ (MatchingRows # {} /\ IsFinite(call.args.latitude)
                /\ IsFinite(call.args.longitude)) => ret.value.success
        /\ ret.value.success =>
               \E i \in MatchingRows :
                   /\ ResultFromRow(i)
                   /\ \A j \in MatchingRows :
                          \/ StatedDistance(i) < StatedDistance(j)
                          \/ StatedDistance(i) = StatedDistance(j) /\ i <= j

\* next to (0, 0), a row of the unlisted village Kandukur is preferred to an
\* earlier row of Manchal
C18_Witness ==
    /\ OfflineDone
    /\ Len(env.file.rows) = 2
    /\ MatchingRows = {1, 2}
    /\ env.file.rows[1].Village = "Manchal"
    /\ env.file.rows[2].Village = "Kandukur"
    /\ ret.value.success
    /\ ret.value.location = "Kandukur"

\* the offline loss as the specification states it, for row i of the file
StatedOfflineLoss(i) ==
    LET row == env.file.rows[i]
        decline == Max(0, FDiv((600 - row.NDVI_Value) * 100 * Milli, 600))
    IN  Min(100 * Milli,
            decline + (IF row.Temperature_Max_C > 35 THEN 5 * Milli ELSE 0)
                    + (IF row.Rainfall_mm < 10 THEN 5 * Milli ELSE 0)
                    + (IF row.Humidity_Percent < 30 THEN 3 * Milli ELSE 0))

\* C19: the offline loss_percentage of the matched record is min(100,
\* max(0, (0.6 - ndvi) / 0.6 * 100) + 5 if max temperature > 35 + 5 if
\* rainfall < 10 + 3 if humidity < 30), the three comparisons strict;
\* damage_cause is Severe Stress above 40, Moderate Stress above 25, Minor
\* Stress above 10 and Healthy otherwise.
C19_OfflineLoss ==
    (OfflineDone /\ ret.value.success) =>
        \E i \in MatchingRows :
            /\ ResultFromRow(i)
            /\ ret.value.loss_percentage = StatedOfflineLoss(i)
            /\ ret.value.damage_cause =
                   (CASE ret.value.loss_percentage > 40 * Milli -> "Severe Stress"
                      [] ret.value.loss_percentage <= 40 * Milli
                             /\ ret.value.loss_percentage > 25 * Milli -> "Moderate Stress"
                      [] ret.value.loss_percentage <= 25 * Milli
                             /\ ret.value.loss_percentage > 10 * Milli -> "Minor Stress"
                      [] OTHER -> "Healthy")

\* the matched record sits on all three thresholds (35 degrees, 10 mm, 30
\* percent): no term is added and the loss is the NDVI part alone
C19_Witness ==
    /\ OfflineDone
    /\ ret.value.success
    /\ \E i \in MatchingRows :
           /\ ResultFromRow(i)
           /\ env.file.rows[i].Temperature_Max_C = 35
           /\ env.file.rows[i].Rainfall_mm = 10
           /\ env.file.rows[i].Humidity_Percent = 30
    /\ ret.value.loss_percentage = 20 * Milli
    /\ ret.value.damage_cause = "Minor Stress"

---------------------------------------------------------------------------
(* Property of what analyze_crop_loss returns (checked under Spec) *)

\* the offline tier's failure objects of the running or last call
OfflineFailures ==
    {outs[i].value : i \in {j \in 1..Len(outs) :
                               /\ tiers[j] = "offline"
                               /\ outs[j].kind = "return"
                               /\ ~outs[j].value.success}}

\* C25: every result analyze_crop_loss returns has success = True; the
\* offline tier's failure object (success = False with an error text) is
\* consumed by the orchestrator and is never the value the caller gets.
C25_SuccessReturned ==
    (OrchDone /\ ret.kind = "return") =>
        /\ ret.value.success = TRUE
        /\ "error" \notin DOMAIN ret.value
        /\ ret.value \notin OfflineFailures

\* the offline tier reported a failure with its error text, and the caller
\* got the simulation tier's estimate
C25_Witness ==
    /\ OrchDone
    /\ ret.kind = "return"
    /\ \E f \in OfflineFailures : "error" \in DOMAIN f
    /\ tiers[Len(tiers)] = "simulation"
    /\ ret.value.success

---------------------------------------------------------------------------
(* Properties of the satellite estimate's labels (checked under Spec) *)

\* the estimates the satellite tier computed in the running or last call
SatelliteEstimates ==
    {outs[i].value : i \in {j \in 1..Len(outs) :
                               tiers[j] = "satellite" /\ IsEstimate(outs[j])}}

\* C21: the damage_cause of a satellite estimate follows the loss magnitude
\* and the current NDVI: above 40 it is Severe Drought, Pest/Disease or
\* Weather Damage; above 20 and up to 40 it is Moderate Stress; otherwise
\* it is Unknown or Healthy.
C21_SatelliteCause ==
    \A e \in SatelliteEstimates :
        IF e.loss_percentage > 40 * Milli
        THEN e.damage_cause \in {"Severe Drought", "Pest/Disease", "Weather Damage"}
        ELSE IF e.loss_percentage > 20 * Milli
        THEN e.damage_cause = "Moderate Stress"
        ELSE e.damage_cause \in {"Unknown", "Healthy"}

---------------------------------------------------------------------------
(* Property of the serving host's satellite estimates (checked under       *)
(* SpecScenes)                                                             *)

\* the provider held at least as many scenes for s as for t, in each window
NoFewerScenes(s, t) ==
    s.scenes_before >= t.scenes_before /\ s.scenes_current >= t.scenes_current

\* C22: the confidence of a satellite estimate is a non-decreasing function
\* of the number of scenes in the before and the current window (more
\* scenes never give a lower confidence), and it never exceeds 95.
C22_ConfidenceByScenes ==
    /\ \A i \in 1..Len(sat) : sat[i].confidence <= 95 * Milli
    /\ \A i, j \in 1..Len(sat) :
           NoFewerScenes(sat[j], sat[i]) => sat[j].confidence >= sat[i].confidence

---------------------------------------------------------------------------
(* Property of the serving host's model file (checked under SpecLoads) *)

\* C24: across the predict_with_explanation calls of one process the
\* trained-model artifact is loaded from disk at most once: once it has been
\* loaded, no later request loads it again.
C24_LoadedOnce == [][loads >= 1 => loads' = loads]_vars

---------------------------------------------------------------------------
(* Property of the per-hectare value across tiers (checked under Spec) *)

\* estimated_value as the satellite and simulation tiers compute it for the
\* call's crop_type: crop_values.get(crop_type, 40000)
ValueByExactKey(e) == e.affected_area * crop_values_get(call.args.crop_type)

\* estimated_value as the offline tier computes it for the call's crop_type:
\* crop_values.get(crop_type.lower(), 40000)
ValueByLowerKey(e) == e.affected_area * crop_values_get(Lower(call.args.crop_type))

\* C26: the per-hectare value applied to a crop_type does not depend on the
\* tier that produced the estimate: for the same crop_type (also one that
\* differs from a table key only in letter case), field_area and
\* loss_percentage, every tier's rule gives the estimated_value the estimate
\* carries.
C26_TierIndependent ==
    \A e \in Estimates :
        /\ e.estimated_value = ValueByExactKey(e)
        /\ e.estimated_value = ValueByLowerKey(e)

---------------------------------------------------------------------------
(* Property of the concurrent host (checked under SpecConc) *)

\* C7: two requests run concurrently in one process are independent: the
\* estimate each returns equals the estimate the same request returns when
\* it runs alone, for every interleaving of their steps.
C7_Independent ==
    \A t \in Threads :
        thr[t].pc = "done" =>
            thr[t].result = analyze_crop_loss_simulation(rng, thr[t].args)

===========================================================================
